---- MODULE Spec2Model ----
(***************************************************************************)
(* PriceSheetGenerator (src/app.js): the POST /upload handler as a state   *)
(* machine.  A request is an async function; every `await` of the handler  *)
(* is a position (pc) of the request, and every action below is the        *)
(* synchronous code that runs between two awaits.  The file system shared  *)
(* by all requests is the images directory, the uploads directory and the  *)
(* two fixed output files public/price-sheet.png and price-sheet.pdf.      *)
(***************************************************************************)
EXTENDS Integers, Sequences, FiniteSets, TLC

(* ---- bounds of the model ---- *)
MaxRows == 4
MaxLongRows == 7
MaxUploads == 2

(* the request slots that may be in flight, and the product slugs of rows *)
Reqs == {"A", "B"}
Slugs == {"milk", "eggs"}

(* ---- constants of the program ---- *)
extensions == <<".png", ".jpg", ".jpeg", ".webp">>
columns == 3
boxWidth == 800
boxHeight == 200
cardWidth == 800
cardHeight == 200
photoLeft == 400
photoTop == 20

NULL == <<>>
NoFile == [by |-> "none", width |-> 0, height |-> 0]
NoPdf == [by |-> "none", pages |-> <<>>]

VARIABLES
    imageDir,      \* files images/<slug><ext> that exist, as <<slug, ext>>
    hasBackground, \* images/background.png exists
    uploadsDir,    \* names of the temp files in uploads/
    pngFile,       \* public/price-sheet.png
    pdfFile,       \* public/price-sheet.pdf
    pc,            \* position of each request's handler
    req,           \* the upload each request carries
    loc,           \* local variables of each request's handler
    resp,          \* HTTP response sent for each request
    ev,            \* history of each request: what it has done so far, the
                   \* price-sheet.png its write replaced, and whether another
                   \* request was in flight during it
    probe          \* last findProductImage call made on its own

vars == <<imageDir, hasBackground, uploadsDir, pngFile, pdfFile,
          pc, req, loc, resp, ev, probe>>

fsIn == <<imageDir, hasBackground>>
fsOut == <<pngFile, pdfFile>>

(* ---- inputs ---- *)
(* sheets of up to MaxRows rows, each row naming any product *)
MixedSheets == UNION {[1..n -> Slugs] : n \in 0..MaxRows}

(* sheets of up to n rows whose rows all name the same product *)
UniformSheets(n) == {[k \in 1..m |-> s] : m \in 0..n, s \in Slugs}

Sheets == MixedSheets \cup UniformSheets(MaxLongRows)

UploadsOf(sheets) ==
    {[kind |-> "nofile", rows |-> <<>>],
     [kind |-> "unreadable", rows |-> <<>>],
     [kind |-> "nosheets", rows |-> <<>>]}
    \cup {[kind |-> "sheet", rows |-> s] : s \in sheets}

NoUpload == [kind |-> "none", rows |-> <<>>]

EmptyFrame ==
    [filePath |-> 0, cleanedData |-> <<>>, backgroundImage |-> FALSE, i |-> 0,
     productImagePath |-> NULL, compositeImages |-> <<>>, imageBuffers |-> <<>>,
     totalWidth |-> 0, totalHeight |-> 0, grid |-> <<>>,
     pngImageBytes |-> NoFile, page |-> <<>>]

NoEvents ==
    [read |-> FALSE, unlinked |-> FALSE, lookups |-> 0, wrote |-> <<>>,
     fault |-> "none", overlapped |-> FALSE, replaced |-> NoFile]

(* ---- findProductImage (src/app.js 21-30) ---- *)
RECURSIVE probeFrom(_, _)
probeFrom(productImageSlug, k) ==
    IF k > Len(extensions) THEN NULL
    ELSE IF <<productImageSlug, extensions[k]>> \in imageDir
         THEN <<productImageSlug, extensions[k]>>
         ELSE probeFrom(productImageSlug, k + 1)

RECURSIVE probeBack(_, _)
probeBack(productImageSlug, k) ==
    IF k < 1 THEN NULL
    ELSE IF <<productImageSlug, extensions[k]>> \in imageDir
         THEN <<productImageSlug, extensions[k]>>
         ELSE probeBack(productImageSlug, k - 1)

findProductImageReversed(productImageSlug) ==
    probeBack(productImageSlug, Len(extensions))

findProductImage(productImageSlug) ==
    probeFrom(productImageSlug, 1)

(* ---- card rendering (src/app.js 83-173) ---- *)
backgroundLayer == [input |-> <<"background">>, left |-> 0, top |-> 0]

photoLayer(productImagePath) ==
    [input |-> <<"photo">> \o productImagePath, left |-> photoLeft, top |-> photoTop]

svgLayer(text) == [input |-> <<"svg", text>>, left |-> 0, top |-> 0]

startLayersAlways(backgroundImage) == <<backgroundLayer>>

(* let compositeImages = []; if (backgroundImage) push(background) *)
startLayers(backgroundImage) ==
    IF backgroundImage THEN <<backgroundLayer>> ELSE <<>>

(* sharp({create 800x200}).composite(compositeImages).png().toBuffer();     *)
(* row is the loop index i that produced the buffer                         *)
renderCard(compositeImages, i) ==
    [width |-> cardWidth, height |-> cardHeight, layers |-> compositeImages, row |-> i]

(* ---- grid layout (src/app.js 176-200) ---- *)
totalWidth == columns * boxWidth

ceil(n, d) == IF n % d = 0 THEN n \div d ELSE (n \div d) + 1

totalHeightFloor(n) == (n \div columns) * boxHeight

totalHeight(n) == ceil(n, columns) * boxHeight

PlaceCardTransposed(buffer, index) ==
    [input |-> buffer,
     top |-> (index % columns) * boxHeight,
     left |-> (index \div columns) * boxWidth]

PlaceCard(buffer, index) ==
    [input |-> buffer,
     top |-> (index \div columns) * boxHeight,
     left |-> (index % columns) * boxWidth]

(* ---- PDF page (src/app.js 206-212) ---- *)
addPageSquare(w, h, pngImage) ==
    [size |-> <<w, w>>, image |-> pngImage, x |-> 0, y |-> 0, width |-> w, height |-> w]

addPage(w, h, pngImage) ==
    [size |-> <<w, h>>, image |-> pngImage, x |-> 0, y |-> 0, width |-> w, height |-> h]

(* ---- the synchronous code from the top of a loop iteration to the next   *)
(* ---- await; each returns the next position, the locals, a thrown error   *)
(* ---- and the number of findProductImage calls made                       *)
rowStart(f) ==
    LET text == f.cleanedData[f.i + 1]
        productImagePath == findProductImage(text)
        layers == startLayers(f.backgroundImage)
    IN IF productImagePath # NULL
       THEN [pc |-> "awaitLoad",
             f |-> [f EXCEPT !.productImagePath = productImagePath,
                             !.compositeImages = layers],
             fault |-> "none", looked |-> 1]
       ELSE [pc |-> "awaitComposite",
             f |-> [f EXCEPT !.productImagePath = NULL,
                             !.compositeImages = Append(layers, svgLayer(text))],
             fault |-> "none", looked |-> 1]

stitch(f) ==
    LET h == totalHeight(Len(f.cleanedData))
        g == [f EXCEPT !.totalWidth = totalWidth, !.totalHeight = h]
    IN IF totalWidth > 0 /\ h > 0
       THEN [pc |-> "awaitToFile",
             f |-> [g EXCEPT !.grid = [k \in 1..Len(f.imageBuffers) |->
                                          PlaceCard(f.imageBuffers[k], k - 1)]],
             fault |-> "none", looked |-> 0]
       ELSE [pc |-> "done", f |-> g, fault |-> "create", looked |-> 0]

loopStep(f) ==
    IF f.i < Len(f.cleanedData) THEN rowStart(f) ELSE stitch(f)

(* ---- how a handler ends ---- *)
(* The async handler has no try/catch: a throw rejects its promise.  Express 5 *)
(* answers a rejected handler with 500, Express 4 never looks at the promise   *)
(* and sends nothing.                                                          *)
RejectionOutcomes == {"500", "none"}

Reject(r, f, e, fault) ==
    /\ pc' = [pc EXCEPT ![r] = "done"]
    /\ loc' = [loc EXCEPT ![r] = f]
    /\ ev' = [ev EXCEPT ![r] = [e EXCEPT !.fault = fault]]
    /\ \E code \in RejectionOutcomes : resp' = [resp EXCEPT ![r] = code]

Settle(r, out, e) ==
    IF out.fault # "none"
    THEN Reject(r, out.f, [e EXCEPT !.lookups = @ + out.looked], out.fault)
    ELSE /\ pc' = [pc EXCEPT ![r] = out.pc]
         /\ loc' = [loc EXCEPT ![r] = out.f]
         /\ ev' = [ev EXCEPT ![r] = [e EXCEPT !.lookups = @ + out.looked]]
         /\ UNCHANGED resp

(* a request whose handler has been invoked and has not returned or thrown *)
InFlight(r) == pc[r] \notin {"idle", "done"}

(* ---- multer: upload.single('file') (src/app.js 14, 33) ---- *)
(* multer names the stored file with a fresh random name: here the least   *)
(* name no file in uploads/ has.  Request slots are interchangeable, so a  *)
(* new request takes the first free one.                                   *)
freshName == CHOOSE n \in 1..(Cardinality(uploadsDir) + 1) : n \notin uploadsDir

Accept(r, sheets) ==
    /\ pc[r] = "idle"
    /\ r = CHOOSE q \in {o \in Reqs : pc[o] = "idle"} : TRUE
    /\ \E u \in UploadsOf(sheets) :
         IF u.kind = "nofile"
         THEN /\ req' = [req EXCEPT ![r] = [kind |-> u.kind, rows |-> u.rows, filename |-> 0]]
              /\ UNCHANGED uploadsDir
         ELSE /\ Cardinality(uploadsDir) < MaxUploads
              /\ req' = [req EXCEPT ![r] = [kind |-> u.kind, rows |-> u.rows,
                                             filename |-> freshName]]
              /\ uploadsDir' = uploadsDir \cup {freshName}
    /\ pc' = [pc EXCEPT ![r] = "start"]
    /\ ev' = [q \in Reqs |->
                IF q = r
                THEN [ev[q] EXCEPT !.overlapped = \E o \in Reqs \ {r} : InFlight(o)]
                ELSE IF InFlight(q) THEN [ev[q] EXCEPT !.overlapped = TRUE] ELSE ev[q]]
    /\ UNCHANGED <<fsIn, fsOut, loc, resp, probe>>

(* ---- src/app.js 34-36 ---- *)
SendNoFile(r) ==
    /\ pc' = [pc EXCEPT ![r] = "done"]
    /\ resp' = [resp EXCEPT ![r] = "400"]
    /\ UNCHANGED <<fsIn, fsOut, uploadsDir, req, loc, ev, probe>>

(* ---- src/app.js 38-71, and on into the loop when there is no background ---- *)
ReadSpreadsheet(r) ==
    LET u == req[r]
        f == [loc[r] EXCEPT !.filePath = u.filename]
    IN /\ UNCHANGED <<fsIn, fsOut, req, probe>>
       /\ \/ \* xlsx.readFile throws on an unreadable file (and path.join on a
             \* missing req.file); a workbook without sheets either makes the
             \* read throw or converts to no rows, as the xlsx build decides
             /\ u.kind \in {"nofile", "unreadable", "nosheets"}
             /\ Reject(r, f, ev[r], "readFile")
             /\ UNCHANGED uploadsDir
          \/ \* fs.unlinkSync throws
             /\ u.kind \in {"sheet", "nosheets"}
             /\ Reject(r, f, [ev[r] EXCEPT !.read = TRUE], "unlink")
             /\ UNCHANGED uploadsDir
          \/ /\ u.kind \in {"sheet", "nosheets"}
             /\ uploadsDir' = uploadsDir \ {u.filename}
             /\ LET g == [f EXCEPT !.cleanedData = u.rows, !.imageBuffers = <<>>, !.i = 0]
                    e == [ev[r] EXCEPT !.read = TRUE, !.unlinked = TRUE]
                IN IF hasBackground
                   THEN Settle(r, [pc |-> "awaitBackground", f |-> g,
                                   fault |-> "none", looked |-> 0], e)
                   ELSE Settle(r, loopStep(g), e)

BeginUnguarded(r) ==
    /\ pc[r] = "start"
    /\ ReadSpreadsheet(r)

Begin(r) ==
    /\ pc[r] = "start"
    /\ IF req[r].kind = "nofile" THEN SendNoFile(r) ELSE ReadSpreadsheet(r)

(* ---- await sharp(backgroundImagePath).toBuffer() settles (71) ---- *)
BackgroundLoaded(r) ==
    /\ pc[r] = "awaitBackground"
    /\ \/ Settle(r, loopStep([loc[r] EXCEPT !.backgroundImage = TRUE]), ev[r])
       \/ Reject(r, loc[r], ev[r], "decodeBackground")
    /\ UNCHANGED <<fsIn, fsOut, uploadsDir, req, probe>>

(* ---- await sharp(productImagePath).toBuffer() settles (119) ---- *)
ImageLoaded(r) ==
    /\ pc[r] = "awaitLoad"
    /\ \/ /\ pc' = [pc EXCEPT ![r] = "awaitResize"]
          /\ UNCHANGED <<loc, resp, ev>>
       \/ Reject(r, loc[r], ev[r], "decode")
    /\ UNCHANGED <<fsIn, fsOut, uploadsDir, req, probe>>

(* ---- resize resolves; push photo, build and push the svg (123-159) ---- *)
ImageResized(r) ==
    /\ pc[r] = "awaitResize"
    /\ LET f == loc[r]
           text == f.cleanedData[f.i + 1]
       IN loc' = [loc EXCEPT ![r].compositeImages =
                      Append(Append(@, photoLayer(f.productImagePath)), svgLayer(text))]
    /\ pc' = [pc EXCEPT ![r] = "awaitComposite"]
    /\ UNCHANGED <<fsIn, fsOut, uploadsDir, req, resp, ev, probe>>

(* ---- composite resolves; push the card, i++, next iteration (159-173) ---- *)
CardComposited(r) ==
    /\ pc[r] = "awaitComposite"
    /\ LET f == loc[r]
           g == [f EXCEPT !.imageBuffers = Append(@, renderCard(f.compositeImages, f.i)),
                          !.i = @ + 1]
       IN Settle(r, loopStep(g), ev[r])
    /\ UNCHANGED <<fsIn, fsOut, uploadsDir, req, probe>>

(* ---- await sharp(...).toFile(stitchedImagePath) settles (184-200); the    *)
(* ---- file is taken to change at the moment the promise resolves          *)
WritePng(r) ==
    /\ pngFile' = [by |-> r, width |-> loc[r].totalWidth, height |-> loc[r].totalHeight]
    /\ ev' = [ev EXCEPT ![r].wrote = Append(@, "png"), ![r].replaced = pngFile]
    /\ pc' = [pc EXCEPT ![r] = "awaitPdfCreate"]
    /\ UNCHANGED <<pdfFile, loc, resp>>

ToFileDoneSwallow(r) ==
    /\ pc[r] = "awaitToFile"
    /\ \/ WritePng(r)
       \/ /\ pc' = [pc EXCEPT ![r] = "awaitPdfCreate"]
          /\ UNCHANGED <<fsOut, loc, resp, ev>>
    /\ UNCHANGED <<fsIn, uploadsDir, req, probe>>

ToFileDone(r) ==
    /\ pc[r] = "awaitToFile"
    /\ \/ WritePng(r)
       \/ /\ Reject(r, loc[r], ev[r], "toFile")
          /\ UNCHANGED fsOut
    /\ UNCHANGED <<fsIn, uploadsDir, req, probe>>

(* ---- await PDFDocument.create() resolves; fs.readFileSync (203-205) ---- *)
PdfCreated(r) ==
    /\ pc[r] = "awaitPdfCreate"
    /\ loc' = [loc EXCEPT ![r].pngImageBytes = pngFile]
    /\ pc' = [pc EXCEPT ![r] = "awaitEmbed"]
    /\ UNCHANGED <<fsIn, fsOut, uploadsDir, req, resp, ev, probe>>

(* ---- await pdfDoc.embedPng resolves; addPage, drawImage (205-213) ---- *)
PngEmbedded(r) ==
    /\ pc[r] = "awaitEmbed"
    /\ loc' = [loc EXCEPT ![r].page =
                  addPage(loc[r].totalWidth, loc[r].totalHeight, loc[r].pngImageBytes)]
    /\ pc' = [pc EXCEPT ![r] = "awaitSave"]
    /\ UNCHANGED <<fsIn, fsOut, uploadsDir, req, resp, ev, probe>>

(* ---- await pdfDoc.save() resolves; writeFileSync, res.json (213-224) ---- *)
PdfSaved(r) ==
    /\ pc[r] = "awaitSave"
    /\ \/ /\ pdfFile' = [by |-> r, pages |-> <<loc[r].page>>]
          /\ ev' = [ev EXCEPT ![r].wrote = Append(@, "pdf")]
          /\ resp' = [resp EXCEPT ![r] = "200"]
          /\ pc' = [pc EXCEPT ![r] = "done"]
          /\ UNCHANGED <<pngFile, loc>>
       \/ /\ Reject(r, loc[r], ev[r], "writeFile")
          /\ UNCHANGED fsOut
    /\ UNCHANGED <<fsIn, uploadsDir, req, probe>>

(* ---- the handler has returned; its frame is gone and the slot is free ---- *)
Recycle(r) ==
    /\ pc[r] = "done"
    /\ pc' = [pc EXCEPT ![r] = "idle"]
    /\ req' = [req EXCEPT ![r] = NoUpload]
    /\ loc' = [loc EXCEPT ![r] = EmptyFrame]
    /\ resp' = [resp EXCEPT ![r] = "none"]
    /\ ev' = [ev EXCEPT ![r] = NoEvents]
    /\ UNCHANGED <<fsIn, fsOut, uploadsDir, probe>>

(* ---- findProductImage called on its own ---- *)
Probe ==
    /\ \E s \in Slugs : probe' = [slug |-> s, result |-> findProductImage(s)]
    /\ UNCHANGED <<fsIn, fsOut, uploadsDir, pc, req, loc, resp, ev>>

(* ---- specifications ---- *)
PipelineImages == {<<"milk", ".jpg">>, <<"milk", ".webp">>}
AllImages == {<<s, extensions[k]>> : s \in Slugs, k \in 1..Len(extensions)}

InitRest ==
    /\ uploadsDir = {}
    /\ pngFile = NoFile
    /\ pdfFile = NoPdf
    /\ pc = [r \in Reqs |-> "idle"]
    /\ req = [r \in Reqs |-> NoUpload]
    /\ loc = [r \in Reqs |-> EmptyFrame]
    /\ resp = [r \in Reqs |-> "none"]
    /\ ev = [r \in Reqs |-> NoEvents]
    /\ probe = [slug |-> "", result |-> NULL]

Init ==
    /\ imageDir \in SUBSET PipelineImages
    /\ hasBackground \in BOOLEAN
    /\ InitRest

InitResolver ==
    /\ imageDir \in SUBSET AllImages
    /\ hasBackground = FALSE
    /\ InitRest

(* the steps of a handler once multer has handed it the request *)
Handle(r) ==
    \/ Begin(r)
    \/ BackgroundLoaded(r)
    \/ ImageLoaded(r)
    \/ ImageResized(r)
    \/ CardComposited(r)
    \/ ToFileDone(r)
    \/ PdfCreated(r)
    \/ PngEmbedded(r)
    \/ PdfSaved(r)

(* one upload at a time: a request arrives only when no other is in flight; *)
(* any number of uploads follow one another                                 *)
ArriveAlone(r) ==
    /\ \A q \in Reqs \ {r} : pc[q] = "idle"
    /\ Accept(r, Sheets)

Next == \E r \in Reqs : ArriveAlone(r) \/ Handle(r) \/ Recycle(r)

Spec == Init /\ [][Next]_vars

(* two uploads, one per slot, handled concurrently and interleaved at their *)
(* awaits; the second may arrive at any time, also after the first ended    *)
Arrive(r) == Accept(r, UniformSheets(MaxRows))

NextConcurrent == \E r \in Reqs : Arrive(r) \/ Handle(r)

SpecConcurrent == Init /\ [][NextConcurrent]_vars

SpecResolver == InitResolver /\ [][Probe]_vars

(***************************************************************************)
(* Properties                                                              *)
(***************************************************************************)
Others(r) == Reqs \ {r}
NRows(r) == Len(req[r].rows)
Succeeded(r) == pc[r] = "done" /\ resp[r] = "200"
Stitched(r) ==
    \/ pc[r] \in {"awaitToFile", "awaitPdfCreate", "awaitEmbed", "awaitSave"}
    \/ Succeeded(r)
HasSheet(r) == req[r].kind = "sheet" /\ NRows(r) >= 1
(* the least k with 3 * k >= n *)
GridRows(n) == CHOOSE k \in 0..n : 3 * k >= n /\ 3 * (k - 1) < n

(* C1: for an upload of N >= 1 rows, the card rendered from row i (0-based, *)
(* original order) is placed at left = (i mod 3) * 800, top = (i div 3) * 200 *)
C1_CardPlacement ==
    \A r \in Reqs :
        (Stitched(r) /\ NRows(r) >= 1) =>
            /\ Len(loc[r].grid) = NRows(r)
            /\ \A i \in 0..(NRows(r) - 1) :
                 LET cell == loc[r].grid[i + 1]
                     card == cell.input
                 IN /\ cell.left = (i % 3) * 800
                    /\ cell.top = (i \div 3) * 200
                    /\ card.row = i
                    /\ card.layers[Len(card.layers)].input = <<"svg", req[r].rows[i + 1]>>

C1_Witness ==
    \E r \in Reqs :
        /\ Succeeded(r)
        /\ NRows(r) = 7
        /\ loc[r].grid[1].left = 0 /\ loc[r].grid[1].top = 0
        /\ loc[r].grid[3].left = 1600 /\ loc[r].grid[3].top = 0
        /\ loc[r].grid[4].left = 0 /\ loc[r].grid[4].top = 200
        /\ loc[r].grid[7].left = 0 /\ loc[r].grid[7].top = 400

(* C2: with uploads handled one at a time, a successfully completed upload *)
(* of N rows leaves price-sheet.png 2400 wide and ceil(N/3) * 200 high,    *)
(* with 3 * ceil(N/3) cell slots of which only trailing ones of the last   *)
(* row are empty, and price-sheet.pdf one page of that size, whatever was  *)
(* there before                                                            *)
C2_OutputSize ==
    \A r \in Reqs :
        Succeeded(r) =>
            LET n == NRows(r)
                rows == GridRows(n)
                slots == (pngFile.width \div 800) * (pngFile.height \div 200)
                occupied == {(loc[r].grid[k].top \div 200) * 3 + (loc[r].grid[k].left \div 800) :
                                k \in 1..Len(loc[r].grid)}
            IN /\ pngFile.width = 2400
               /\ pngFile.height = rows * 200
               /\ slots = 3 * rows
               /\ occupied = 0..(n - 1)
               /\ \A c \in n..(slots - 1) : c \div 3 = rows - 1
               /\ Len(pdfFile.pages) = 1
               /\ pdfFile.pages[1].size = <<2400, rows * 200>>
               /\ pdfFile.pages[1].image.width = 2400
               /\ pdfFile.pages[1].image.height = rows * 200

C2_Witness ==
    \E r \in Reqs :
        /\ Succeeded(r)
        /\ NRows(r) = 2
        /\ ev[r].replaced.height = 400
        /\ pngFile.height = 200
        /\ pdfFile.pages[1].size = <<2400, 200>>

(* C3: a request without a file is answered 400 and runs no part of the    *)
(* pipeline: nothing read, no temp file deleted, no lookup, no card, no    *)
(* output file written                                                     *)
C3_NoFileNoPipeline ==
    \A r \in Reqs :
        (req[r].kind = "nofile" /\ pc[r] # "start") =>
            /\ pc[r] = "done"
            /\ resp[r] = "400"
            /\ ~ev[r].read
            /\ ~ev[r].unlinked
            /\ ev[r].lookups = 0
            /\ ev[r].wrote = <<>>
            /\ ev[r].fault = "none"
            /\ loc[r] = EmptyFrame

C3_Witness ==
    \E r \in Reqs :
        /\ req[r].kind = "nofile"
        /\ pc[r] = "done"
        /\ resp[r] = "400"
        /\ pngFile # NoFile

(* C4: a request that carries a file never ends (response or failure) with *)
(* its temp file still in the uploads directory, whether the load          *)
(* succeeded or failed                                                     *)
C4_TempFileRemoved ==
    \A r \in Reqs :
        (req[r].kind \in {"unreadable", "nosheets", "sheet"} /\ pc[r] = "done") =>
            req[r].filename \notin uploadsDir

(* C5: when deleting the temp file fails, the request still renders its    *)
(* cards, writes both output files and sends the success response          *)
C5_UnlinkFailureNotSurfaced ==
    \A r \in Reqs :
        (pc[r] = "done" /\ ev[r].fault = "unlink") =>
            /\ resp[r] = "200"
            /\ ev[r].wrote = <<"png", "pdf">>
            /\ Len(loc[r].imageBuffers) = NRows(r)

(* C6: the success response of a request is sent only after that request   *)
(* wrote price-sheet.png and then price-sheet.pdf; when either write fails *)
(* no success response is sent                                             *)
C6_ResponseAfterWrites ==
    \A r \in Reqs :
        /\ resp[r] = "200" =>
              /\ ev[r].wrote = <<"png", "pdf">>
              /\ ev[r].fault = "none"
              /\ pngFile.by = r
              /\ pdfFile.by = r
        /\ ev[r].fault = "toFile" => (resp[r] # "200" /\ ev[r].wrote = <<>>)
        /\ ev[r].fault = "writeFile" => (resp[r] # "200" /\ ev[r].wrote = <<"png">>)

C6_Witness ==
    \E r \in Reqs :
        /\ pc[r] = "done"
        /\ ev[r].fault = "writeFile"
        /\ ev[r].wrote = <<"png">>
        /\ resp[r] # "200"

(* C7: when the spreadsheet is unreadable or has no sheets, no asset       *)
(* lookup and no card render runs, neither output file is written, and the *)
(* caller receives a server-error response                                 *)
C7_LoadErrorAborts ==
    \A r \in Reqs :
        (req[r].kind \in {"unreadable", "nosheets"} /\ pc[r] = "done") =>
            /\ ev[r].lookups = 0
            /\ loc[r].imageBuffers = <<>>
            /\ ev[r].wrote = <<>>
            /\ resp[r] = "500"

(* C8: findProductImage(slug) returns the path of the first of .png, .jpg, *)
(* .jpeg, .webp whose file exists, and null exactly when none exists       *)
C8_FirstExistingExtension ==
    probe.slug # "" =>
        LET order == <<".png", ".jpg", ".jpeg", ".webp">>
            exists(k) == <<probe.slug, order[k]>> \in imageDir
        IN /\ (probe.result = NULL) <=> (\A k \in 1..4 : ~exists(k))
           /\ probe.result # NULL =>
                \E k \in 1..4 :
                    /\ probe.result = <<probe.slug, order[k]>>
                    /\ exists(k)
                    /\ \A j \in 1..(k - 1) : ~exists(j)

C8_Witness ==
    /\ probe.slug = "milk"
    /\ probe.result = <<"milk", ".jpeg">>
    /\ <<"milk", ".webp">> \in imageDir
    /\ <<"eggs", ".png">> \in imageDir

(* C9: every row yields exactly one card whose layers are, in order, the   *)
(* background (iff background.png exists), the product photo at (400,20)   *)
(* (iff an image was resolved for the row's slug) and the text overlay;    *)
(* a missing image or background never fails the request; a row's layers   *)
(* depend on that row alone                                                *)
C9_CardLayers ==
    \A r \in Reqs :
        /\ \A k \in 1..Len(loc[r].imageBuffers) :
             LET card == loc[r].imageBuffers[k]
                 slug == req[r].rows[k]
                 resolved == \E e \in {".png", ".jpg", ".jpeg", ".webp"} : <<slug, e>> \in imageDir
                 kinds == (IF hasBackground THEN <<"background">> ELSE <<>>)
                          \o (IF resolved THEN <<"photo">> ELSE <<>>)
                          \o <<"svg">>
             IN /\ card.row = k - 1
                /\ Len(card.layers) = Len(kinds)
                /\ \A j \in 1..Len(kinds) :
                     LET layer == card.layers[j]
                     IN /\ layer.input[1] = kinds[j]
                        /\ kinds[j] = "background" => layer.left = 0 /\ layer.top = 0
                        /\ kinds[j] = "photo" =>
                             /\ layer.left = 400 /\ layer.top = 20
                             /\ layer.input[2] = slug
                             /\ <<layer.input[2], layer.input[3]>> \in imageDir
                        /\ kinds[j] = "svg" =>
                             /\ layer.left = 0 /\ layer.top = 0
                             /\ layer.input = <<"svg", slug>>
        /\ Stitched(r) => Len(loc[r].imageBuffers) = NRows(r)
        /\ (HasSheet(r) /\ pc[r] = "done" /\ resp[r] # "200") =>
             /\ ev[r].fault \in {"unlink", "decodeBackground", "decode", "toFile", "writeFile"}
             /\ ev[r].fault = "decodeBackground" => hasBackground
             /\ ev[r].fault = "decode" => loc[r].productImagePath \in imageDir

C9_Witness ==
    \E r \in Reqs :
        /\ Succeeded(r)
        /\ ~hasBackground
        /\ req[r].rows = <<"milk", "eggs">>
        /\ Len(loc[r].imageBuffers[1].layers) = 2
        /\ Len(loc[r].imageBuffers[2].layers) = 1

(* C10 as stated: under every interleaving of two concurrent uploads, the  *)
(* PDF a request writes embeds the PNG that request generated, and its     *)
(* page size equals the size of the embedded image                         *)
C10_PdfEmbedsOwnPng ==
    \A r \in Reqs :
        Succeeded(r) =>
            /\ loc[r].page.image.by = r
            /\ loc[r].page.size = <<loc[r].page.image.width, loc[r].page.image.height>>

(* C10 amended: a request during which no other request was in flight      *)
(* writes a PDF that embeds its own PNG, and the page size (always the     *)
(* request's own grid size) equals the size of the embedded image          *)
C10_PdfEmbedsOwnPngWhenAlone ==
    \A r \in Reqs :
        Succeeded(r) =>
            /\ loc[r].page.size = <<2400, GridRows(NRows(r)) * 200>>
            /\ ~ev[r].overlapped =>
                 /\ loc[r].page.image.by = r
                 /\ loc[r].page.size = <<loc[r].page.image.width, loc[r].page.image.height>>

C10_Witness ==
    \E r \in Reqs :
        /\ Succeeded(r)
        /\ ~ev[r].overlapped
        /\ loc[r].page.image.by = r
        /\ ev[r].replaced.by \in Others(r)
        /\ ev[r].replaced.height # pngFile.height

====
